---- MODULE Spec2Model ----
(***************************************************************************)
(* A model of the mini-jira-app core (src-tauri/src): the duration parser  *)
(* JiraClient::parse_time_to_seconds, the session cell                     *)
(* Mutex<Option<JiraClient>> with the four commands that use it            *)
(* (connect_to_jira, get_assigned_issues, create_worklog,                  *)
(* disconnect_from_jira), and the reminder loop                            *)
(* start_notification_scheduler.                                           *)
(*                                                                         *)
(* Strings the code inspects character by character (the duration string)  *)
(* are sequences of one-character strings; every other string is opaque.   *)
(* Integers of the model checker are 32-bit signed, so f32 arithmetic is   *)
(* done on a 24-bit significand split into two 12-bit limbs.               *)
(***************************************************************************)
EXTENDS Integers, Sequences, FiniteSets, TLC

VARIABLES
    \* ---- duration parser harness
    input,        \* the time_str handed to parse_time_to_seconds
    output,       \* its result, or NoResult before the call
    \* ---- session store and the commands (one slot per concurrent task)
    session,      \* the cell: None or the stored client
    lock,         \* 0 when the mutex is free, else the task holding the guard
    pc,           \* pc[t]: where task t stands in its command
    call,         \* call[t]: the command task t runs and its arguments
    client,       \* client[t]: the command's local `client`
    inflight,     \* inflight[t]: the HTTP request of t awaiting its response
    got,          \* got[t]: the response t's request received, once it has one
    sent,         \* sent[t]: how many HTTP requests t sent in this invocation
    result,       \* result[t]: what the command returned
    \* ---- reminder scheduler
    now,          \* local wall clock, in minutes since midnight of day 0
    setBacks,     \* history: how many times the wall clock was set back
    start,        \* history: the clock when the scheduler was spawned
    due,          \* interval ticks whose deadline has passed and that have not run
    regular,      \* history: the clock only advanced and every tick so far
                  \* ran within its own minute
    windowGone,   \* history: some 17:00 tick found no main window
    emitted       \* history: the emit calls made, in order

parseVars == <<input, output>>
sessVars  == <<session, lock, pc, call, client, inflight, got, sent, result>>
schedVars == <<now, setBacks, start, due, regular, windowGone, emitted>>
vars      == <<input, output, session, lock, pc, call, client, inflight, got, sent,
               result, now, setBacks, start, due, regular, windowGone, emitted>>

(***************************************************************************)
(* Results: Rust's Result<T, String> / Result<T, Box<dyn Error>>.          *)
(***************************************************************************)
Ok(v)  == [ok |-> TRUE, val |-> v]
Err(e) == [ok |-> FALSE, err |-> e]
NoResult == [ok |-> FALSE, err |-> "<not called>"]

(***************************************************************************)
(* Characters.                                                             *)
(***************************************************************************)
Digits == {"0", "1", "2", "3", "4", "5", "6", "7", "8", "9"}

DigitVal(c) ==
    CASE c = "0" -> 0 [] c = "1" -> 1 [] c = "2" -> 2 [] c = "3" -> 3
      [] c = "4" -> 4 [] c = "5" -> 5 [] c = "6" -> 6 [] c = "7" -> 7
      [] c = "8" -> 8 [] c = "9" -> 9

IsWhitespace(c) == c = " "

RECURSIVE Pow(_, _)
Pow(b, n) == IF n = 0 THEN 1 ELSE b * Pow(b, n - 1)

(***************************************************************************)
(* f32: a finite value is sign, significand m (0, or 2^23 <= m < 2^24) and *)
(* exponent e, standing for m * 2^e.  The inputs of the model keep every   *)
(* value in the normal range, far from subnormals and from overflow.       *)
(***************************************************************************)
F32Zero(neg) == [neg |-> neg, m |-> 0, e |-> 0]

\* Scale num/den into [1, 2): halve while it is >= 2 ...
RECURSIVE NormUp(_, _, _)
NormUp(num, den, e) ==
    IF num >= 2 * den THEN NormUp(num, 2 * den, e + 1)
    ELSE [num |-> num, den |-> den, e |-> e]

\* ... and double while it is < 1.
RECURSIVE NormDown(_, _, _)
NormDown(num, den, e) ==
    IF num < den THEN NormDown(2 * num, den, e - 1)
    ELSE [num |-> num, den |-> den, e |-> e]

\* n more quotient bits of num/den by long division; rem is the doubled remainder.
RECURSIVE LongDiv(_, _, _, _)
LongDiv(num, den, q, n) ==
    IF n = 0 THEN [q |-> q, rem |-> num]
    ELSE IF num >= den THEN LongDiv(2 * (num - den), den, 2 * q + 1, n - 1)
    ELSE LongDiv(2 * num, den, 2 * q, n - 1)

\* Round-to-nearest, ties-to-even, of a 24-bit quotient q with the rest of the
\* value given as rem/half2 of a unit in the last place (rem = half: a tie).
RoundEven(q, rem, half) ==
    IF rem > half \/ (rem = half /\ q % 2 = 1) THEN q + 1 ELSE q

\* Renormalise a significand that rounding carried to 2^24.
Carry(neg, m, e) ==
    IF m = 16777216 THEN [neg |-> neg, m |-> 8388608, e |-> e + 1]
    ELSE [neg |-> neg, m |-> m, e |-> e]

\* The f32 nearest to num/den (num >= 0, den > 0), as str::parse::<f32> gives it.
F32FromRatio(neg, num, den) ==
    IF num = 0 THEN F32Zero(neg)
    ELSE LET up == NormUp(num, den, 0)
             dn == NormDown(up.num, up.den, up.e)
             d  == LongDiv(dn.num, dn.den, 0, 24)
         IN  Carry(neg, RoundEven(d.q, d.rem, dn.den), dn.e - 23)

\* c = OddPart(c) * 2^TwoExp(c)
RECURSIVE OddPart(_)
OddPart(c) == IF c % 2 = 0 THEN OddPart(c \div 2) ELSE c

RECURSIVE TwoExp(_)
TwoExp(c) == IF c % 2 = 0 THEN 1 + TwoExp(c \div 2) ELSE 0

\* The least s >= 0 with hi < 2^(12 + s): the bits the product has beyond 24.
RECURSIVE ExtraBits(_, _)
ExtraBits(hi, s) == IF hi < Pow(2, 12 + s) THEN s ELSE ExtraBits(hi, s + 1)

\* x * c in f32 for a small positive integer constant c (an f32 multiplication:
\* the exact product rounded to 24 bits, ties to even).  The product
\* m * OddPart(c) is kept as hi * 2^12 + lo.
MulF32(x, c) ==
    IF x.m = 0 THEN x
    ELSE LET k  == OddPart(c)
             a  == x.m \div 4096
             b  == x.m % 4096
             hi == a * k + (b * k) \div 4096
             lo == (b * k) % 4096
             s  == ExtraBits(hi, 0)
             q  == hi * Pow(2, 12 - s) + lo \div Pow(2, s)
             r  == lo % Pow(2, s)
             m  == IF s = 0 THEN q ELSE RoundEven(q, 2 * r, Pow(2, s))
         IN  Carry(x.neg, m, x.e + s + TwoExp(c))

\* Mutant of F32AsU32: a signed cast, a negative value keeps its sign.
F32AsU32_Signed(x) ==
    LET mag == IF x.m = 0 THEN 0
               ELSE IF x.e >= 0 THEN x.m * Pow(2, x.e)
               ELSE IF 0 - x.e >= 24 THEN 0
               ELSE x.m \div Pow(2, 0 - x.e)
    IN  IF x.neg THEN 0 - mag ELSE mag

\* `x as u32`: truncation toward zero, saturating; a negative value gives 0.
\* (Saturation at u32::MAX, for values of 2^32 and more, lies beyond the
\* integers of the model checker; the inputs of the model stay below 2^31.)
F32AsU32(x) ==
    IF x.neg \/ x.m = 0 THEN 0
    ELSE IF x.e >= 0 THEN x.m * Pow(2, x.e)
    ELSE IF 0 - x.e >= 24 THEN 0
    ELSE x.m \div Pow(2, 0 - x.e)

(***************************************************************************)
(* str::parse::<f32> on the characters of the model's alphabet: an         *)
(* optional sign, then digits with at most one '.', at least one digit.    *)
(***************************************************************************)
RECURSIVE CountOf(_, _)
CountOf(s, c) ==
    IF s = <<>> THEN 0 ELSE (IF Head(s) = c THEN 1 ELSE 0) + CountOf(Tail(s), c)

RECURSIVE DigitsValue(_, _)
DigitsValue(s, acc) ==
    IF s = <<>> THEN acc
    ELSE IF Head(s) = "." THEN DigitsValue(Tail(s), acc)
    ELSE DigitsValue(Tail(s), 10 * acc + DigitVal(Head(s)))

RECURSIVE FracLen(_)
FracLen(s) ==
    IF s = <<>> THEN 0
    ELSE IF Head(s) = "." THEN Len(s) - 1
    ELSE FracLen(Tail(s))

IsNumber(s) ==
    /\ \A i \in 1..Len(s) : s[i] \in Digits \cup {"."}
    /\ CountOf(s, ".") <= 1
    /\ Len(s) - CountOf(s, ".") >= 1

\* Mutant of ParseF32: the empty string parses as zero.
ParseF32_EmptyIsZero(s) ==
    IF s = <<>> THEN Ok(F32Zero(FALSE))
    ELSE LET signed == Head(s) \in {"-", "+"}
             neg    == Head(s) = "-"
             body   == IF signed THEN Tail(s) ELSE s
         IN  IF body = <<>> \/ ~IsNumber(body) THEN Err("invalid float literal")
             ELSE Ok(F32FromRatio(neg, DigitsValue(body, 0), Pow(10, FracLen(body))))

ParseF32(s) ==
    IF s = <<>> THEN Err("cannot parse float from empty string")
    ELSE LET signed == Head(s) \in {"-", "+"}
             neg    == Head(s) = "-"
             body   == IF signed THEN Tail(s) ELSE s
         IN  IF body = <<>> \/ ~IsNumber(body) THEN Err("invalid float literal")
             ELSE Ok(F32FromRatio(neg, DigitsValue(body, 0), Pow(10, FracLen(body))))

(***************************************************************************)
(* JiraClient::parse_time_to_seconds                                       *)
(***************************************************************************)
RECURSIVE TrimStart(_)
TrimStart(s) ==
    IF s # <<>> /\ IsWhitespace(Head(s)) THEN TrimStart(Tail(s)) ELSE s

RECURSIVE TrimEnd(_)
TrimEnd(s) ==
    IF s # <<>> /\ IsWhitespace(s[Len(s)]) THEN TrimEnd(SubSeq(s, 1, Len(s) - 1)) ELSE s

Trim(s) == TrimEnd(TrimStart(s))

EndsWith(s, c) == s # <<>> /\ s[Len(s)] = c

ErrEmpty   == "Time string is empty"
ErrFormat  == "Invalid time format. Use 'h' for hours, 'm' for minutes, 'd' for days"

\* The unit arm of the match: (number * factor) as u32.
UnitSeconds(number, unit) ==
    CASE unit = "h" -> F32AsU32(MulF32(number, 3600))
      [] unit = "m" -> F32AsU32(MulF32(number, 60))
      [] unit = "d" -> F32AsU32(MulF32(MulF32(number, 8), 3600))

EmptyCheck(time_str) == time_str = <<>>

parse_time_to_seconds(time_str) ==
    IF EmptyCheck(time_str) THEN Err(ErrEmpty)
    ELSE LET s == Trim(time_str)
             unit == IF EndsWith(s, "h") THEN "h"
                     ELSE IF EndsWith(s, "m") THEN "m"
                     ELSE IF EndsWith(s, "d") THEN "d"
                     ELSE "none"
         IN  IF unit = "none" THEN Err(ErrFormat)
             ELSE LET number == ParseF32(SubSeq(s, 1, Len(s) - 1))
                  IN  IF ~number.ok THEN number
                      ELSE Ok(UnitSeconds(number.val, unit))

(***************************************************************************)
(* The parser's harness: every string over Alphabet of length <= MaxLen.   *)
(***************************************************************************)
MaxLen == 4

Alphabet == {"0", "1", "2", "3", "5", ".", "-", " ", "h", "m", "d", "x"}

Inputs == UNION {[1..n -> Alphabet] : n \in 0..MaxLen}

ParseCall ==
    /\ output = NoResult
    /\ output' = parse_time_to_seconds(input)
    /\ UNCHANGED <<input, sessVars, schedVars>>

(***************************************************************************)
(* JiraClient and its three requests (jira_api.rs).                        *)
(***************************************************************************)
None    == <<>>
Some(x) == <<x>>

JiraClient_new(base_url, email, access_token) ==
    [base_url |-> base_url, email |-> email, access_token |-> access_token]

\* GET {base}/rest/api/3/myself with basic auth (test_connection).
ProbeRequest(c) ==
    [method |-> "GET", url |-> <<c.base_url, "/rest/api/3/myself">>,
     user |-> c.email, pass |-> c.access_token,
     query |-> <<>>, body |-> None]

\* The two pairs of `params`, percent-encoded as they go into the URL.  params
\* is a HashMap, so the order the pairs are written in is the map's iteration
\* order: either one.
SearchQueries ==
    LET jql    == "jql=assignee%3DcurrentUser%28%29"
        fields == "fields=summary%2Cstatus%2Cassignee"
    IN  {<<jql, fields>>, <<fields, jql>>}

\* GET {base}/rest/api/3/search?{query} (get_assigned_issues).
SearchRequest(c, query) ==
    [method |-> "GET", url |-> <<c.base_url, "/rest/api/3/search">>,
     user |-> c.email, pass |-> c.access_token,
     query |-> query,
     body |-> None]

\* The comment document create_worklog builds around `description`.
WorklogComment(description) ==
    [type |-> "doc", version |-> 1,
     content |-> << [type |-> "paragraph",
                     content |-> << [type |-> "text", text |-> description] >>] >>]

\* The field types of struct WorklogRequest as jira_types.rs declares them ...
WorklogRequestDecl ==
    [comment |-> "String", started |-> "String", timeSpentSeconds |-> "u32"]

\* ... and the types of the values create_worklog's struct literal puts there.
WorklogRequestLiteral ==
    [comment |-> "WorklogComment", started |-> "String", timeSpentSeconds |-> "u32",
     visibility |-> "Option<WorklogVisibility>"]

\* A field of the literal as the declared struct can carry it: the value when
\* the types agree, else the compiler's mismatch (no build carries the value).
FieldValue(name, value) ==
    IF WorklogRequestDecl[name] = WorklogRequestLiteral[name] THEN value
    ELSE [type |-> "error[E0308]: mismatched types",
          expected |-> WorklogRequestDecl[name],
          found |-> WorklogRequestLiteral[name]]

\* The JSON body: the declared fields of WorklogRequest under their serde names.
WorklogBody(description, started, time_spent_seconds) ==
    [comment          |-> FieldValue("comment", WorklogComment(description)),
     started          |-> FieldValue("started", started),
     timeSpentSeconds |-> FieldValue("timeSpentSeconds", time_spent_seconds)]

\* POST {base}/rest/api/3/issue/{key}/worklog (JiraClient::create_worklog).
WorklogRequestFor(c, issue_key, description, started, time_spent_seconds) ==
    [method |-> "POST",
     url |-> <<c.base_url, "/rest/api/3/issue/", issue_key, "/worklog">>,
     user |-> c.email, pass |-> c.access_token,
     query |-> <<>>,
     body |-> Some(WorklogBody(description, started, time_spent_seconds))]

(***************************************************************************)
(* What the remote end can answer: the request fails below HTTP, or a      *)
(* response arrives with a status and a body that decodes or does not.     *)
(***************************************************************************)
SuccessStatuses == {200, 204}

ErrorStatuses == {401}

StatusText(st) ==
    CASE st = 200 -> "200 OK" [] st = 204 -> "204 No Content"
      [] st = 401 -> "401 Unauthorized"

\* (A 204 has no body and the body of an error response is an error page:
\* neither would decode as the JSON the client expects.)
Responses ==
    {[transport_ok |-> FALSE, status |-> 0, decodes |-> FALSE]}
    \cup {[transport_ok |-> TRUE, status |-> 200, decodes |-> d] : d \in BOOLEAN}
    \cup {[transport_ok |-> TRUE, status |-> st, decodes |-> FALSE] :
            st \in (SuccessStatuses \ {200}) \cup ErrorStatuses}

Healthy == {[transport_ok |-> TRUE, status |-> 200, decodes |-> TRUE]}

\* reqwest's StatusCode::is_success
is_success(st) == st >= 200 /\ st < 300

\* Mutant of test_connection: a transport failure is folded into Ok(false).
test_connection_FoldsErrors(resp) ==
    IF ~resp.transport_ok THEN [ok |-> TRUE, val |-> FALSE]
    ELSE [ok |-> TRUE, val |-> resp.status >= 200 /\ resp.status < 300]

\* JiraClient::test_connection: Ok(is_success) or the transport error.
test_connection(resp) ==
    IF ~resp.transport_ok THEN Err(<<"error sending request">>)
    ELSE Ok(is_success(resp.status))

\* The tail shared by JiraClient::get_assigned_issues and ::create_worklog.
\* The request was sent and the status of the response is in the success range.
HeadersOk(resp) == resp.transport_ok /\ is_success(resp.status)

DecodeResponse(resp, what) ==
    IF ~resp.transport_ok THEN Err(<<"error sending request">>)
    ELSE IF ~is_success(resp.status)
         THEN Err(<<"JIRA API error: ", StatusText(resp.status)>>)
    ELSE IF ~resp.decodes THEN Err(<<"error decoding response body">>)
    ELSE Ok(what)

Prefixed(prefix, r) == IF r.ok THEN r ELSE Err(<<prefix>> \o r.err)

NotConnected  == Err(<<"Not connected to JIRA">>)
ConnectFailed == Err(<<"Failed to connect to JIRA">>)
Pending       == Err(<<"<pending>">>)

(***************************************************************************)
(* The commands of lib.rs over the session cell.  Each task slot runs one  *)
(* command at a time; the steps of a command are the points where another  *)
(* task can run in between: taking the mutex, an awaited request.          *)
(***************************************************************************)
NTasks == 2

Tasks == 1..NTasks

CredArgs == {<<"https://jira.a", "ann@a", "tokA">>, <<"https://jira.b", "bob@b", "tokB">>}

Descriptions == {"Fixed bug"}

Durations == {<<"2", "h">>, <<"5", "x">>}

WorklogArgs ==
    {<<"PROJ-1", d, "2024-01-01T09:00:00", ts>> : d \in Descriptions, ts \in Durations}

NoCall == [op |-> "none", args |-> <<>>]

Calls ==
    {[op |-> "connect_to_jira", args |-> a] : a \in CredArgs}
    \cup {[op |-> "get_assigned_issues", args |-> <<>>]}
    \cup {[op |-> "create_worklog", args |-> a] : a \in WorklogArgs}
    \cup {[op |-> "disconnect_from_jira", args |-> <<>>]}

\* A command returns: its result is set, its locals are dropped.
Return(t, r) ==
    /\ pc' = [pc EXCEPT ![t] = "done"]
    /\ result' = [result EXCEPT ![t] = r]
    /\ inflight' = [inflight EXCEPT ![t] = None]
    /\ client' = [client EXCEPT ![t] = None]

\* The presentation layer invokes a command on a free slot.
Invoke(t) ==
    /\ pc[t] = "idle"
    /\ \E c \in Calls : call' = [call EXCEPT ![t] = c]
    /\ pc' = [pc EXCEPT ![t] = "begin"]
    /\ UNCHANGED <<session, lock, client, inflight, got, sent, result>>
    /\ UNCHANGED <<parseVars, schedVars>>

\* The caller takes the result; the slot is free again.
Finish(t) ==
    /\ pc[t] = "done"
    /\ pc' = [pc EXCEPT ![t] = "idle"]
    /\ call' = [call EXCEPT ![t] = NoCall]
    /\ got' = [got EXCEPT ![t] = None]
    /\ sent' = [sent EXCEPT ![t] = 0]
    /\ result' = [result EXCEPT ![t] = Pending]
    /\ UNCHANGED <<session, lock, client, inflight>>
    /\ UNCHANGED <<parseVars, schedVars>>

---------------------------------------------------------------------------
\* connect_to_jira: JiraClient::new, then client.test_connection() is sent.
ConnectProbe(t) ==
    /\ pc[t] = "begin" /\ call[t].op = "connect_to_jira"
    /\ LET c == JiraClient_new(call[t].args[1], call[t].args[2], call[t].args[3])
       IN  /\ client' = [client EXCEPT ![t] = Some(c)]
           /\ inflight' = [inflight EXCEPT ![t] = Some(ProbeRequest(c))]
    /\ sent' = [sent EXCEPT ![t] = @ + 1]
    /\ pc' = [pc EXCEPT ![t] = "probing"]
    /\ UNCHANGED <<session, lock, call, got, result>>
    /\ UNCHANGED <<parseVars, schedVars>>

\* Mutant of ConnectProbed: a failed probe also clears the cell.
ConnectProbed_ClearsOnFailure(t, env) ==
    /\ pc[t] = "probing"
    /\ \E resp \in env :
         LET r == test_connection(resp) IN
           /\ got' = [got EXCEPT ![t] = Some(resp)]
           /\ IF r.ok /\ r.val
              THEN /\ pc' = [pc EXCEPT ![t] = "c_lock"]
                   /\ inflight' = [inflight EXCEPT ![t] = None]
                   /\ UNCHANGED <<client, result, session>>
              ELSE /\ Return(t, IF r.ok THEN ConnectFailed
                                ELSE Err(<<"Connection error: ">> \o r.err))
                   /\ session' = None
    /\ UNCHANGED <<lock, call, sent>>
    /\ UNCHANGED <<parseVars, schedVars>>

\* Mutant of ConnectProbed: every answered probe goes on to the store.
ConnectProbed_StoresAnyway(t, env) ==
    /\ pc[t] = "probing"
    /\ \E resp \in env :
         LET r == test_connection(resp) IN
           /\ got' = [got EXCEPT ![t] = Some(resp)]
           /\ IF r.ok
              THEN /\ pc' = [pc EXCEPT ![t] = "c_lock"]
                   /\ inflight' = [inflight EXCEPT ![t] = None]
                   /\ UNCHANGED <<client, result>>
              ELSE Return(t, Err(<<"Connection error: ">> \o r.err))
    /\ UNCHANGED <<session, lock, call, sent>>
    /\ UNCHANGED <<parseVars, schedVars>>

\* The probe is answered: the match on test_connection()'s result.
ConnectProbed(t, env) ==
    /\ pc[t] = "probing"
    /\ \E resp \in env :
         LET r == test_connection(resp) IN
           /\ got' = [got EXCEPT ![t] = Some(resp)]
           /\ IF r.ok /\ r.val
              THEN /\ pc' = [pc EXCEPT ![t] = "c_lock"]
                   /\ inflight' = [inflight EXCEPT ![t] = None]
                   /\ UNCHANGED <<client, result>>
              ELSE Return(t, IF r.ok THEN ConnectFailed
                             ELSE Err(<<"Connection error: ">> \o r.err))
    /\ UNCHANGED <<session, lock, call, sent>>
    /\ UNCHANGED <<parseVars, schedVars>>

\* state.lock()
ConnectLock(t) ==
    /\ pc[t] = "c_lock" /\ lock = 0
    /\ lock' = t
    /\ pc' = [pc EXCEPT ![t] = "c_store"]
    /\ UNCHANGED <<session, call, client, inflight, got, sent, result>>
    /\ UNCHANGED <<parseVars, schedVars>>

\* Mutant of ConnectStore: Ok(true) without the assignment to the cell.
ConnectStore_Forgets(t) ==
    /\ pc[t] = "c_store" /\ lock = t
    /\ lock' = 0
    /\ Return(t, Ok("true"))
    /\ UNCHANGED <<session, call, got, sent>>
    /\ UNCHANGED <<parseVars, schedVars>>

\* Mutant of ConnectStore: a cell that already holds a client keeps it.
ConnectStore_KeepsExisting(t) ==
    /\ pc[t] = "c_store" /\ lock = t
    /\ session' = IF session = None THEN client[t] ELSE session
    /\ lock' = 0
    /\ Return(t, Ok("true"))
    /\ UNCHANGED <<call, got, sent>>
    /\ UNCHANGED <<parseVars, schedVars>>

\* *jira_state = Some(client); Ok(true); the guard is dropped as the block ends.
ConnectStore(t) ==
    /\ pc[t] = "c_store" /\ lock = t
    /\ session' = client[t]
    /\ lock' = 0
    /\ Return(t, Ok("true"))
    /\ UNCHANGED <<call, got, sent>>
    /\ UNCHANGED <<parseVars, schedVars>>

---------------------------------------------------------------------------
\* get_assigned_issues: state.lock()
GetLock(t) ==
    /\ pc[t] = "begin" /\ call[t].op = "get_assigned_issues" /\ lock = 0
    /\ lock' = t
    /\ pc' = [pc EXCEPT ![t] = "g_clone"]
    /\ UNCHANGED <<session, call, client, inflight, got, sent, result>>
    /\ UNCHANGED <<parseVars, schedVars>>

\* Mutant of GetClone: the guard outlives the block and is never dropped.
GetClone_KeepsGuard(t) ==
    /\ pc[t] = "g_clone" /\ lock = t
    /\ client' = [client EXCEPT ![t] = session]
    /\ pc' = [pc EXCEPT ![t] = "g_match"]
    /\ UNCHANGED <<session, lock, call, inflight, got, sent, result>>
    /\ UNCHANGED <<parseVars, schedVars>>

\* jira_state.as_ref().cloned(); the guard is dropped with the block.
GetClone(t) ==
    /\ pc[t] = "g_clone" /\ lock = t
    /\ client' = [client EXCEPT ![t] = session]
    /\ lock' = 0
    /\ pc' = [pc EXCEPT ![t] = "g_match"]
    /\ UNCHANGED <<session, call, inflight, got, sent, result>>
    /\ UNCHANGED <<parseVars, schedVars>>

\* Mutant of GetMatch: the cell is read again where the request is built.
GetMatch_RereadsCell(t) ==
    /\ pc[t] = "g_match"
    /\ IF session = None
       THEN /\ Return(t, NotConnected)
            /\ UNCHANGED sent
       ELSE /\ \E query \in SearchQueries :
                 inflight' = [inflight EXCEPT ![t] = Some(SearchRequest(session[1], query))]
            /\ sent' = [sent EXCEPT ![t] = @ + 1]
            /\ pc' = [pc EXCEPT ![t] = "g_wait"]
            /\ UNCHANGED <<client, result>>
    /\ UNCHANGED <<session, lock, call, got>>
    /\ UNCHANGED <<parseVars, schedVars>>

\* match client: None returns the error, Some(client) sends the search.
GetMatch(t) ==
    /\ pc[t] = "g_match"
    /\ IF client[t] = None
       THEN /\ Return(t, NotConnected)
            /\ UNCHANGED sent
       ELSE /\ \E query \in SearchQueries :
                 inflight' = [inflight EXCEPT ![t] = Some(SearchRequest(client[t][1], query))]
            /\ sent' = [sent EXCEPT ![t] = @ + 1]
            /\ pc' = [pc EXCEPT ![t] = "g_wait"]
            /\ UNCHANGED <<client, result>>
    /\ UNCHANGED <<session, lock, call, got>>
    /\ UNCHANGED <<parseVars, schedVars>>

\* Mutant of GetResponse: a 401 ends the session.
GetResponse_DropsSessionOn401(t, env) ==
    /\ pc[t] = "g_wait"
    /\ \E resp \in env :
         /\ got' = [got EXCEPT ![t] = Some(resp)]
         /\ IF HeadersOk(resp)
            THEN /\ pc' = [pc EXCEPT ![t] = "g_body"]
                 /\ UNCHANGED <<inflight, client, result>>
            ELSE Return(t, Prefixed("Failed to get issues: ", DecodeResponse(resp, "issues")))
         /\ session' = IF resp.transport_ok /\ resp.status = 401 THEN None ELSE session
    /\ UNCHANGED <<lock, call, sent>>
    /\ UNCHANGED <<parseVars, schedVars>>

\* send().await completes: a failure to send or a status outside 2xx is
\* returned (.map_err wraps it); on a 2xx the command goes on to read the body.
GetResponse(t, env) ==
    /\ pc[t] = "g_wait"
    /\ \E resp \in env :
         /\ got' = [got EXCEPT ![t] = Some(resp)]
         /\ IF HeadersOk(resp)
            THEN /\ pc' = [pc EXCEPT ![t] = "g_body"]
                 /\ UNCHANGED <<inflight, client, result>>
            ELSE Return(t, Prefixed("Failed to get issues: ", DecodeResponse(resp, "issues")))
    /\ UNCHANGED <<session, lock, call, sent>>
    /\ UNCHANGED <<parseVars, schedVars>>

\* response.json().await completes: the issues, or the decode error.
GetDecode(t) ==
    /\ pc[t] = "g_body"
    /\ Return(t, Prefixed("Failed to get issues: ", DecodeResponse(got[t][1], "issues")))
    /\ UNCHANGED <<session, lock, call, got, sent>>
    /\ UNCHANGED <<parseVars, schedVars>>

---------------------------------------------------------------------------
\* create_worklog: state.lock()
WorklogLock(t) ==
    /\ pc[t] = "begin" /\ call[t].op = "create_worklog" /\ lock = 0
    /\ lock' = t
    /\ pc' = [pc EXCEPT ![t] = "w_clone"]
    /\ UNCHANGED <<session, call, client, inflight, got, sent, result>>
    /\ UNCHANGED <<parseVars, schedVars>>

\* Mutant of WorklogClone: the guard is kept for the rest of the command.
WorklogClone_KeepsGuard(t) ==
    /\ pc[t] = "w_clone" /\ lock = t
    /\ client' = [client EXCEPT ![t] = session]
    /\ pc' = [pc EXCEPT ![t] = "w_match"]
    /\ UNCHANGED <<session, lock, call, inflight, got, sent, result>>
    /\ UNCHANGED <<parseVars, schedVars>>

\* jira_state.as_ref().cloned(); the guard is dropped with the block.
WorklogClone(t) ==
    /\ pc[t] = "w_clone" /\ lock = t
    /\ client' = [client EXCEPT ![t] = session]
    /\ lock' = 0
    /\ pc' = [pc EXCEPT ![t] = "w_match"]
    /\ UNCHANGED <<session, call, inflight, got, sent, result>>
    /\ UNCHANGED <<parseVars, schedVars>>

\* Mutant of WorklogMatch: the duration is parsed before the match on client.
WorklogMatch_ParsesFirst(t) ==
    /\ pc[t] = "w_match"
    /\ LET time_spent_seconds == parse_time_to_seconds(call[t].args[4]) IN
         IF ~time_spent_seconds.ok
         THEN /\ Return(t, Err(<<"Invalid time format: ", time_spent_seconds.err>>))
              /\ UNCHANGED sent
         ELSE IF client[t] = None
         THEN /\ Return(t, NotConnected)
              /\ UNCHANGED sent
         ELSE /\ inflight' = [inflight EXCEPT ![t] =
                     Some(WorklogRequestFor(client[t][1], call[t].args[1], call[t].args[2],
                                            call[t].args[3], time_spent_seconds.val))]
              /\ sent' = [sent EXCEPT ![t] = @ + 1]
              /\ pc' = [pc EXCEPT ![t] = "w_wait"]
              /\ UNCHANGED <<client, result>>
    /\ UNCHANGED <<session, lock, call, got>>
    /\ UNCHANGED <<parseVars, schedVars>>

\* match client: None returns the error; Some(client) parses the duration and,
\* when it parses, sends the POST.
WorklogMatch(t) ==
    /\ pc[t] = "w_match"
    /\ IF client[t] = None
       THEN /\ Return(t, NotConnected)
            /\ UNCHANGED sent
       ELSE LET time_spent_seconds == parse_time_to_seconds(call[t].args[4])
                req == WorklogRequestFor(client[t][1], call[t].args[1], call[t].args[2],
                                         call[t].args[3], time_spent_seconds.val)
            IN  IF ~time_spent_seconds.ok
                THEN /\ Return(t, Err(<<"Invalid time format: ", time_spent_seconds.err>>))
                     /\ UNCHANGED sent
                ELSE /\ inflight' = [inflight EXCEPT ![t] = Some(req)]
                     /\ sent' = [sent EXCEPT ![t] = @ + 1]
                     /\ pc' = [pc EXCEPT ![t] = "w_wait"]
                     /\ UNCHANGED <<client, result>>
    /\ UNCHANGED <<session, lock, call, got>>
    /\ UNCHANGED <<parseVars, schedVars>>

\* Mutant of WorklogResponse: a failed POST is sent once more.
WorklogResponse_Retries(t, env) ==
    /\ pc[t] = "w_wait"
    /\ \E resp \in env :
         /\ got' = [got EXCEPT ![t] = Some(resp)]
         /\ IF HeadersOk(resp)
            THEN /\ pc' = [pc EXCEPT ![t] = "w_body"]
                 /\ UNCHANGED <<inflight, client, result, sent>>
            ELSE IF sent[t] < 2
            THEN /\ sent' = [sent EXCEPT ![t] = @ + 1]
                 /\ UNCHANGED <<pc, result, inflight, client>>
            ELSE /\ Return(t, Prefixed("Failed to create worklog: ",
                                       DecodeResponse(resp, "worklog")))
                 /\ UNCHANGED sent
    /\ UNCHANGED <<session, lock, call>>
    /\ UNCHANGED <<parseVars, schedVars>>

\* send().await completes: a failure to send or a status outside 2xx is
\* returned (.map_err wraps it); on a 2xx the command goes on to read the body.
WorklogResponse(t, env) ==
    /\ pc[t] = "w_wait"
    /\ \E resp \in env :
         /\ got' = [got EXCEPT ![t] = Some(resp)]
         /\ IF HeadersOk(resp)
            THEN /\ pc' = [pc EXCEPT ![t] = "w_body"]
                 /\ UNCHANGED <<inflight, client, result>>
            ELSE Return(t, Prefixed("Failed to create worklog: ",
                                    DecodeResponse(resp, "worklog")))
    /\ UNCHANGED <<session, lock, call, sent>>
    /\ UNCHANGED <<parseVars, schedVars>>

\* response.json().await completes: the worklog, or the decode error.
WorklogDecode(t) ==
    /\ pc[t] = "w_body"
    /\ Return(t, Prefixed("Failed to create worklog: ", DecodeResponse(got[t][1], "worklog")))
    /\ UNCHANGED <<session, lock, call, got, sent>>
    /\ UNCHANGED <<parseVars, schedVars>>

---------------------------------------------------------------------------
\* disconnect_from_jira: state.lock()
DisconnectLock(t) ==
    /\ pc[t] = "begin" /\ call[t].op = "disconnect_from_jira" /\ lock = 0
    /\ lock' = t
    /\ pc' = [pc EXCEPT ![t] = "d_store"]
    /\ UNCHANGED <<session, call, client, inflight, got, sent, result>>
    /\ UNCHANGED <<parseVars, schedVars>>

\* Mutant of DisconnectStore: an already empty cell is reported as an error.
DisconnectStore_FailsWhenEmpty(t) ==
    /\ pc[t] = "d_store" /\ lock = t
    /\ session' = None
    /\ lock' = 0
    /\ Return(t, IF session = None THEN NotConnected ELSE Ok("()"))
    /\ UNCHANGED <<call, got, sent>>
    /\ UNCHANGED <<parseVars, schedVars>>

\* *jira_state = None; Ok(()); the guard is dropped.
DisconnectStore(t) ==
    /\ pc[t] = "d_store" /\ lock = t
    /\ session' = None
    /\ lock' = 0
    /\ Return(t, Ok("()"))
    /\ UNCHANGED <<call, got, sent>>
    /\ UNCHANGED <<parseVars, schedVars>>

(***************************************************************************)
(* start_notification_scheduler: a 60-second interval whose first tick is  *)
(* immediate; each tick reads the local clock.  A tick whose deadline has  *)
(* passed stays due until the loop runs it.                                *)
(***************************************************************************)
ReminderHour == 17

ReminderMinute == 0

MaxMinutes == 1440

MaxDue == 3

MaxSetBacks == 1

StartMinutes == {0, 1019, 1020, 1021, 1439}

Hour(t) == (t \div 60) % 24

Minute(t) == t % 60

\* Mutant of IsReminderTime: the minute is not compared.
IsReminderTime_HourOnly(t) == Hour(t) = ReminderHour

\* now.hour() == 17 && now.minute() == 0
IsReminderTime(t) == Hour(t) = ReminderHour /\ Minute(t) = ReminderMinute

\* Mutant of SchedTick: a tick that runs late makes up for the 17:00 it missed.
SchedTick_Compensates ==
    /\ due > 0
    /\ due' = due - 1
    /\ IF IsReminderTime(now) \/ (due > 1 /\ IsReminderTime(now - 1))
       THEN \E window \in {"emit_ok", "emit_err", "none"} :
              IF window = "none"
              THEN windowGone' = TRUE /\ UNCHANGED emitted
              ELSE /\ emitted' = Append(emitted, [at |-> now, ok |-> window = "emit_ok"])
                   /\ UNCHANGED windowGone
       ELSE UNCHANGED <<emitted, windowGone>>
    /\ UNCHANGED <<now, setBacks, start, regular, parseVars, sessVars>>

\* Mutant of SchedTick: the loop ends with the first failed emission.
SchedTick_StopsOnFailure ==
    /\ due > 0
    /\ ~windowGone /\ \A i \in DOMAIN emitted : emitted[i].ok
    /\ due' = due - 1
    /\ IF IsReminderTime(now)
       THEN \E window \in {"emit_ok", "emit_err", "none"} :
              IF window = "none"
              THEN windowGone' = TRUE /\ UNCHANGED emitted
              ELSE /\ emitted' = Append(emitted, [at |-> now, ok |-> window = "emit_ok"])
                   /\ UNCHANGED windowGone
       ELSE UNCHANGED <<emitted, windowGone>>
    /\ UNCHANGED <<now, setBacks, start, regular, parseVars, sessVars>>

\* One turn of the loop: interval.tick() completes, the clock is read and, at
\* 17:00, the window is looked up and the event emitted.  `window` is what
\* get_webview_window("main") and emit give this time.
SchedTick ==
    /\ due > 0
    /\ due' = due - 1
    /\ IF IsReminderTime(now)
       THEN \E window \in {"emit_ok", "emit_err", "none"} :
              IF window = "none"
              THEN windowGone' = TRUE /\ UNCHANGED emitted
              ELSE /\ emitted' = Append(emitted, [at |-> now, ok |-> window = "emit_ok"])
                   /\ UNCHANGED windowGone
       ELSE UNCHANGED <<emitted, windowGone>>
    /\ UNCHANGED <<now, setBacks, start, regular, parseVars, sessVars>>

\* A minute of wall-clock time passes and the interval's next deadline with it.
ClockAdvance ==
    /\ now < start + MaxMinutes
    /\ due < MaxDue
    /\ now' = now + 1
    /\ due' = due + 1
    /\ regular' = (regular /\ due = 0)
    /\ UNCHANGED <<setBacks, start, windowGone, emitted, parseVars, sessVars>>

\* The wall clock is set back a minute.  Local::now() reads it; the interval
\* runs on the monotonic clock and is not touched.
ClockSetBack ==
    /\ setBacks < MaxSetBacks
    /\ now > start
    /\ now' = now - 1
    /\ setBacks' = setBacks + 1
    /\ regular' = FALSE
    /\ UNCHANGED <<start, due, windowGone, emitted, parseVars, sessVars>>

(***************************************************************************)
(* Specifications.                                                         *)
(***************************************************************************)
ParseIdle == input = <<>> /\ output = NoResult

SessIdle ==
    /\ session = None
    /\ lock = 0
    /\ pc = [t \in Tasks |-> "idle"]
    /\ call = [t \in Tasks |-> NoCall]
    /\ client = [t \in Tasks |-> None]
    /\ inflight = [t \in Tasks |-> None]
    /\ got = [t \in Tasks |-> None]
    /\ sent = [t \in Tasks |-> 0]
    /\ result = [t \in Tasks |-> Pending]

SchedIdle ==
    /\ now = 0 /\ setBacks = 0 /\ start = 0 /\ due = 1
    /\ regular = TRUE /\ windowGone = FALSE /\ emitted = <<>>

\* The commands, called in any order and interleaving, the remote end answering
\* from env.
Step(t, env) ==
    \/ ConnectProbe(t) \/ ConnectProbed(t, env) \/ ConnectLock(t) \/ ConnectStore(t)
    \/ GetLock(t) \/ GetClone(t) \/ GetMatch(t) \/ GetResponse(t, env) \/ GetDecode(t)
    \/ WorklogLock(t) \/ WorklogClone(t) \/ WorklogMatch(t) \/ WorklogResponse(t, env)
    \/ WorklogDecode(t)
    \/ DisconnectLock(t) \/ DisconnectStore(t)

Init == SessIdle /\ ParseIdle /\ SchedIdle

Next == \E t \in Tasks : Invoke(t) \/ Step(t, Responses) \/ Finish(t)

Spec == Init /\ [][Next]_vars

\* The parser alone, on every input of the harness.
ParseInit ==
    /\ input \in Inputs /\ output = NoResult
    /\ SessIdle /\ SchedIdle

ParseNext == ParseCall

ParseSpec == ParseInit /\ [][ParseNext]_vars

\* The scheduler alone, spawned at one of the start minutes.
SchedInit ==
    /\ now \in StartMinutes /\ setBacks = 0 /\ start = now /\ due = 1
    /\ regular = TRUE /\ windowGone = FALSE /\ emitted = <<>>
    /\ SessIdle /\ ParseIdle

SchedNext == SchedTick \/ ClockAdvance \/ ClockSetBack

SchedSpec == SchedInit /\ [][SchedNext]_vars

\* One round of commands, each slot invoked once, against a healthy remote end
\* (every request answered 2xx with a decodable body), from an empty cell or one
\* a connect has filled.  A get_assigned_issues call that can take a step
\* eventually takes one, and a command holding the guard reaches the end of the
\* guard's scope.
LiveInit ==
    /\ session \in {None} \cup {Some(JiraClient_new(a[1], a[2], a[3])) : a \in CredArgs}
    /\ lock = 0
    /\ pc = [t \in Tasks |-> "idle"]
    /\ call = [t \in Tasks |-> NoCall]
    /\ client = [t \in Tasks |-> None]
    /\ inflight = [t \in Tasks |-> None]
    /\ got = [t \in Tasks |-> None]
    /\ sent = [t \in Tasks |-> 0]
    /\ result = [t \in Tasks |-> Pending]
    /\ ParseIdle /\ SchedIdle

LiveNext == \E t \in Tasks : Invoke(t) \/ Step(t, Healthy)

LiveSpec ==
    /\ LiveInit /\ [][LiveNext]_vars
    /\ \A t \in Tasks :
         /\ WF_vars(GetLock(t) \/ GetClone(t) \/ GetMatch(t) \/ GetResponse(t, Healthy)
                    \/ GetDecode(t))
         /\ WF_vars(ConnectStore(t) \/ WorklogClone(t) \/ DisconnectStore(t))

(***************************************************************************)
(* Properties.                                                             *)
(***************************************************************************)
\* The client a connect call's arguments describe.
ClientOf(c) == [base_url |-> c.args[1], email |-> c.args[2], access_token |-> c.args[3]]

Returns(t)  == pc[t] # "done" /\ pc'[t] = "done"

Got2xx(t) ==
    got[t] # None /\ got[t][1].transport_ok
    /\ got[t][1].status >= 200 /\ got[t][1].status <= 299

TransportError == Err(<<"Connection error: ", "error sending request">>)

\* C1: when connect_to_jira returns success the cell holds a client with exactly
\* the call's base_url, email and access_token, whatever it held before; and the
\* cell keeps holding it until another connect or disconnect completes.
C1_ConnectInstallsClient ==
    [][\A t \in Tasks :
         call[t].op = "connect_to_jira" =>
           /\ (Returns(t) /\ result'[t] = Ok("true"))
                => session' = <<ClientOf(call[t])>>
           /\ (pc[t] = "done" /\ pc'[t] = "done" /\ result[t] = Ok("true")
               /\ session = <<ClientOf(call[t])>> /\ session' # session)
                => \E u \in Tasks \ {t} :
                     /\ call[u].op \in {"connect_to_jira", "disconnect_from_jira"}
                     /\ Returns(u)
      ]_vars

\* Two connects with different credentials have both returned success; the cell
\* holds the client of the one that stored last, over the other's.
C1_Witness ==
    \E t, u \in Tasks :
        /\ t # u
        /\ call[t].op = "connect_to_jira" /\ call[u].op = "connect_to_jira"
        /\ call[t].args # call[u].args
        /\ pc[t] = "done" /\ pc[u] = "done"
        /\ result[t] = Ok("true") /\ result[u] = Ok("true")
        /\ session = <<ClientOf(call[t])>>

\* C2: a failed connect never changes the cell: the cell changes only in a step of
\* the guard's holder, a disconnect or a connect whose probe got 2xx; a connect
\* whose probe got a non-2xx response returns ConnectionFailed, one whose probe
\* failed below HTTP returns that error, and that step leaves the cell as it was.
C2_FailedConnectKeepsCell ==
    [][/\ session' # session =>
            \E u \in Tasks :
                /\ lock = u
                /\ \/ call[u].op = "disconnect_from_jira"
                   \/ call[u].op = "connect_to_jira" /\ Got2xx(u)
       /\ \A t \in Tasks :
            (call[t].op = "connect_to_jira" /\ Returns(t) /\ ~Got2xx(t)')
              => /\ session' = session
                 /\ result'[t] = IF got'[t][1].transport_ok THEN ConnectFailed
                                 ELSE TransportError
      ]_vars

\* A connect with other credentials has failed (non-2xx) and the cell still holds
\* the client stored before.
C2_Witness ==
    \E t \in Tasks :
        /\ call[t].op = "connect_to_jira" /\ pc[t] = "done"
        /\ result[t] = ConnectFailed
        /\ session # None /\ session # <<ClientOf(call[t])>>

\* C3: disconnect_from_jira returns success and leaves the cell empty, from every
\* prior state of the cell; so does a second one right after it.
C3_DisconnectClears ==
    [][\A t \in Tasks :
         (call[t].op = "disconnect_from_jira" /\ Returns(t))
           => result'[t] = Ok("()") /\ session' = None
      ]_vars

\* Two disconnects have returned, one after the other, both with success; the
\* second found the cell as the first left it.
C3_Witness ==
    \E t, u \in Tasks :
        /\ t # u
        /\ call[t].op = "disconnect_from_jira" /\ call[u].op = "disconnect_from_jira"
        /\ pc[t] = "done" /\ pc[u] = "done"
        /\ result[t] = Ok("()") /\ result[u] = Ok("()")
        /\ session = None

\* C4: a get_assigned_issues or create_worklog that reads an empty cell returns
\* NotConnected without sending a request, for every duration string.
C4_NotConnected ==
    [][\A t \in Tasks :
         /\ (pc[t] \in {"g_clone", "w_clone"} /\ pc'[t] # pc[t] /\ session = None)
              => client'[t] = None /\ pc'[t] \in {"g_match", "w_match"}
         /\ (pc[t] \in {"g_match", "w_match"} /\ client[t] = None /\ pc'[t] # pc[t])
              => /\ pc'[t] = "done"
                 /\ result'[t] = NotConnected
                 /\ sent'[t] = 0 /\ inflight'[t] = None
      ]_vars

\* A create_worklog with an invalid duration and a get_assigned_issues have both
\* returned NotConnected, no request sent.
C4_Witness ==
    \E t, u \in Tasks :
        /\ call[t].op = "create_worklog" /\ call[t].args[4] = <<"5", "x">>
        /\ call[u].op = "get_assigned_issues"
        /\ pc[t] = "done" /\ pc[u] = "done"
        /\ result[t] = NotConnected /\ result[u] = NotConnected
        /\ sent[t] = 0 /\ sent[u] = 0

\* C5: against a healthy remote end every get_assigned_issues call completes, so
\* none waits forever for the session lock; each one that read a client from the
\* cell completes with success, having sent one request; and the lock is never
\* held by a call whose request is in flight.
C5_ConcurrentGetsComplete ==
    /\ \A t \in Tasks :
         (call[t].op = "get_assigned_issues" /\ pc[t] = "begin") ~> (pc[t] = "done")
    /\ [](\A t \in Tasks :
            /\ (call[t].op = "get_assigned_issues" /\ pc[t] = "done" /\ sent[t] > 0)
                 => (result[t] = Ok("issues") /\ sent[t] = 1)
            /\ pc[t] \in {"g_wait", "g_body"} => (lock # t /\ client[t] # None))

\* Two get_assigned_issues calls that read the same client from the cell both
\* have their request in flight.
C5_Witness ==
    \E t, u \in Tasks :
        /\ t # u
        /\ call[t].op = "get_assigned_issues" /\ call[u].op = "get_assigned_issues"
        /\ pc[t] = "g_wait" /\ pc[u] = "g_wait"
        /\ inflight[t] # None /\ inflight[u] # None
        /\ client[t] # None /\ client[t] = client[u] /\ session = client[t]

\* The first 24 hours after the scheduler started, in minutes.
SpanMinutes == 24 * 60

SpanDone == now > start + SpanMinutes - 1 \/ (now = start + SpanMinutes - 1 /\ due = 0)

EmittedInSpan == {i \in DOMAIN emitted : emitted[i].at < start + SpanMinutes}

\* C6: every emit happens at a tick that read 17:00; with one tick in each minute
\* and the main window found, no minute has two emits, and when the ticks of the
\* first 24 hours are done exactly one emit has happened in them.
C6_ReminderOncePerDay ==
    /\ \A i \in DOMAIN emitted :
         Hour(emitted[i].at) = 17 /\ Minute(emitted[i].at) = 0
    /\ (regular /\ ~windowGone) =>
         /\ \A i, j \in DOMAIN emitted : emitted[i].at = emitted[j].at => i = j
         /\ Cardinality(EmittedInSpan) <= 1
         /\ SpanDone => Cardinality(EmittedInSpan) = 1

\* The scheduler started at 17:01 and ticked once in each of 1440 minutes; the
\* one emit came at the last of them.
C6_Witness ==
    /\ regular /\ ~windowGone
    /\ start = 1021 /\ now = start + SpanMinutes - 1 /\ due = 0
    /\ Len(emitted) = 1 /\ emitted[1].at = now /\ emitted[1].ok

\* C7: the POST a create_worklog has in flight goes to the issue's worklog
\* resource and carries timeSpentSeconds = parse(d) and, as comment, the
\* document of one paragraph holding one text node with the description.
C7_WorklogRequestBody ==
    \A t \in Tasks :
        pc[t] = "w_wait" =>
            LET req == inflight[t][1]
                a   == call[t].args
            IN  /\ sent[t] = 1
                /\ req.method = "POST"
                /\ req.url = <<client[t][1].base_url, "/rest/api/3/issue/", a[1], "/worklog">>
                /\ req.body[1].timeSpentSeconds = parse_time_to_seconds(a[4]).val
                /\ req.body[1].comment =
                     [type |-> "doc", version |-> 1,
                      content |-> << [type |-> "paragraph",
                                      content |-> << [type |-> "text", text |-> a[2]] >>] >>]

\* The exact value of a decimal numeral times factor, truncated toward zero.
ExactSeconds(numeral, factor) ==
    (DigitsValue(numeral, 0) * factor) \div Pow(10, FracLen(numeral))

\* C8: for a non-negative decimal number n followed by one unit character the
\* parser returns n x 3600 (h), n x 60 (m) or n x 28800 (d), truncated toward
\* zero.
C8_ExactProduct ==
    LET numeral == SubSeq(input, 1, Len(input) - 1)
        unit    == input[Len(input)]
    IN  (/\ output # NoResult
         /\ Len(input) >= 2
         /\ unit \in {"h", "m", "d"}
         /\ IsNumber(numeral))
        => output = Ok(ExactSeconds(numeral,
                                    CASE unit = "h" -> 3600
                                      [] unit = "m" -> 60
                                      [] unit = "d" -> 28800))

\* C9: every input whose trimmed form is empty fails with the EmptyInput error.
C9_BlankIsEmptyInput ==
    (output # NoResult /\ Trim(input) = <<>>) => output = Err(ErrEmpty)

\* C10: connect_to_jira returns success exactly when its probe received a 2xx
\* response; a non-2xx response gives ConnectionFailed and a transport failure an
\* error other than ConnectionFailed.
C10_ConnectIff2xx ==
    \A t \in Tasks :
        (call[t].op = "connect_to_jira" /\ pc[t] = "done") =>
            /\ result[t].ok <=> Got2xx(t)
            /\ result[t].ok => result[t] = Ok("true")
            /\ (got[t][1].transport_ok /\ ~Got2xx(t)) => result[t] = ConnectFailed
            /\ ~got[t][1].transport_ok => result[t] = TransportError

\* One connect has returned success on a 204, another the transport error.
C10_Witness ==
    \E t, u \in Tasks :
        /\ call[t].op = "connect_to_jira" /\ call[u].op = "connect_to_jira"
        /\ pc[t] = "done" /\ pc[u] = "done"
        /\ result[t] = Ok("true") /\ got[t][1].status = 204
        /\ result[u] = TransportError /\ ~got[u][1].transport_ok

\* C11: no task holds the session lock while one of its requests is in flight;
\* the lock is held only between taking it and the read or write of the cell
\* that follows, and by one task at a time.
C11_NoLockAcrossRequest ==
    \A t \in Tasks :
        /\ inflight[t] # None => lock # t
        /\ pc[t] \in {"probing", "g_wait", "g_body", "w_wait", "w_body"}
             <=> inflight[t] # None
        /\ lock = t <=> pc[t] \in {"c_store", "g_clone", "w_clone", "d_store"}

\* A create_worklog has its POST in flight while another task holds the lock.
C11_Witness ==
    \E t, u \in Tasks :
        /\ pc[t] = "w_wait" /\ inflight[t] # None /\ inflight[t][1].method = "POST"
        /\ lock = u /\ u # t

\* The value a connect or disconnect writes to the cell.
WriteOf(c) == IF c.op = "connect_to_jira" THEN <<ClientOf(c)>> ELSE None

Writers == {"connect_to_jira", "disconnect_from_jira"}

\* C12: the cell changes only in the step by which a connect or disconnect that
\* holds the lock writes it and drops the lock; that step overwrites whatever
\* the cell held with the call's own value and the call returns success, so
\* the cell always holds the write of the call that took the lock last.
C12_LastWriteWins ==
    [][/\ \A t \in Tasks :
            (lock = t /\ lock' # t /\ call[t].op \in Writers)
              => /\ session' = WriteOf(call[t])
                 /\ Returns(t) /\ result'[t].ok
       /\ session' # session
            => \E t \in Tasks : lock = t /\ lock' = 0 /\ call[t].op \in Writers
       /\ \A t \in Tasks :
            (call[t].op \in Writers /\ Returns(t) /\ ~result'[t].ok)
              => (got'[t] # None /\ ~Got2xx(t)')
      ]_vars

\* A successful connect and a disconnect have both completed and the cell is
\* empty: the disconnect wrote last and the connect's client did not survive.
C12_Witness ==
    \E t, u \in Tasks :
        /\ call[t].op = "connect_to_jira" /\ pc[t] = "done" /\ result[t] = Ok("true")
        /\ call[u].op = "disconnect_from_jira" /\ pc[u] = "done" /\ result[u] = Ok("()")
        /\ session = None /\ lock = 0

\* The input is '-', a decimal numeral and one unit character.
NegativeInput ==
    /\ Len(input) >= 3
    /\ input[1] = "-"
    /\ IsNumber(SubSeq(input, 2, Len(input) - 1))
    /\ input[Len(input)] \in {"h", "m", "d"}

\* C13 as stated: a number below zero before the unit gives a second count
\* below zero.
C13_NegativeCount ==
    (output # NoResult /\ NegativeInput
     /\ DigitsValue(SubSeq(input, 2, Len(input) - 1), 0) > 0)
        => (output.ok /\ output.val < 0)

\* C13 (amended): a negative number before the unit is accepted, it is not an
\* error, and the second count returned for it is 0.
C13_NegativeGivesZero ==
    (output # NoResult /\ NegativeInput) => output = Ok(0)

\* "-2h" and its like: a negative number of one hour or more has been parsed.
C13_Witness ==
    /\ NegativeInput /\ input[Len(input)] = "h"
    /\ DigitsValue(SubSeq(input, 2, Len(input) - 1), 0) >= Pow(10, FracLen(SubSeq(input, 2, Len(input) - 1)))
    /\ output = Ok(0)

\* The answer task t got is a failure for its command: no response, a status
\* outside 2xx or, where the body is decoded, a body that does not decode.
GotFailure(t) ==
    \/ ~Got2xx(t)
    \/ call[t].op # "connect_to_jira" /\ ~got[t][1].decodes

\* C14: an invocation sends at most one request; one is outstanding exactly
\* while the command waits for its answer; and when the answer is a failure
\* the command has returned it as an error after that one request.
C14_AtMostOneRequest ==
    \A t \in Tasks :
        /\ sent[t] <= 1
        /\ inflight[t] # None => sent[t] = 1
        /\ (pc[t] = "done" /\ got[t] # None)
             => /\ sent[t] = 1 /\ inflight[t] = None
                /\ result[t].ok <=> ~GotFailure(t)

\* A create_worklog whose POST was answered 401 has returned the error, and a
\* get_assigned_issues whose answer did not decode has returned its error.
C14_Witness ==
    \E t, u \in Tasks :
        /\ call[t].op = "create_worklog" /\ pc[t] = "done" /\ sent[t] = 1
        /\ got[t] # None /\ got[t][1].status = 401
        /\ result[t] = Err(<<"Failed to create worklog: ", "JIRA API error: ", StatusText(401)>>)
        /\ call[u].op = "get_assigned_issues" /\ pc[u] = "done" /\ sent[u] = 1
        /\ got[u] # None /\ Got2xx(u) /\ ~got[u][1].decodes /\ ~result[u].ok

\* C15: a tick that reads a time other than 17:00 never emits, however late it
\* runs and however many ticks are due; so every emit carries the 17:00 its own
\* tick read, and a day whose 17:00 no tick read has no emit.
C15_MissedReminderIsDropped ==
    /\ [](\A i \in DOMAIN emitted :
            Hour(emitted[i].at) = 17 /\ Minute(emitted[i].at) = 0)
    /\ [][/\ (Hour(now) # 17 \/ Minute(now) # 0) => emitted' = emitted
          /\ emitted' # emitted
               => (now' = now /\ Len(emitted') = Len(emitted) + 1
                   /\ emitted'[Len(emitted')].at = now)
         ]_vars

\* The scheduler started before 17:00, no tick ran during the 17:00 minute (a
\* tick there would have emitted or found no window), the ticks that were due
\* have run late, and nothing was emitted.
C15_Witness ==
    /\ start < 1020 /\ now >= 1021 /\ now < 1440
    /\ ~regular /\ setBacks = 0 /\ due = 0
    /\ emitted = <<>> /\ ~windowGone

\* C16: the loop has no state it stops in: whenever a tick is due the loop can
\* run it, also after an emit that failed or a window that was not found; and
\* every tick that reads 17:00 looks the window up again and, finding it, emits.
C16_LoopKeepsRunning ==
    /\ [](due > 0 => ENABLED SchedTick)
    /\ [][(due' < due /\ Hour(now) = 17 /\ Minute(now) = 0)
            => \/ Len(emitted') = Len(emitted) + 1
               \/ windowGone' /\ emitted' = emitted
         ]_vars

\* The emit at one 17:00 failed and the emit at the next 17:00, 24 hours later,
\* succeeded.
C16_Witness ==
    /\ Len(emitted) >= 2
    /\ ~emitted[1].ok /\ emitted[Len(emitted)].ok
    /\ emitted[Len(emitted)].at = emitted[1].at + 24 * 60

Units == {"h", "m", "d"}

\* An optional sign, then digits with at most one '.', at least one digit.
SignedDecimal(p) ==
    /\ p # <<>>
    /\ IsNumber(IF p[1] \in {"+", "-"} THEN Tail(p) ELSE p)

\* The errors of the float parser, as against the parser's own format error.
FloatErrors == {"cannot parse float from empty string", "invalid float literal"}

\* C17 as stated: a non-empty input whose last character is no unit fails with
\* InvalidFormat, and so does one whose characters before the unit are not a
\* decimal number (a numeric-parse error counts as the same failure here).
C17_InvalidFormat ==
    output # NoResult =>
        /\ (input # <<>> /\ input[Len(input)] \notin Units)
             => output = Err(ErrFormat)
        /\ (input # <<>> /\ input[Len(input)] \in Units
             /\ ~SignedDecimal(Trim(SubSeq(input, 1, Len(input) - 1))))
             => ~output.ok

\* C17 (amended): the input is trimmed first.  A non-empty input whose trimmed
\* form does not end in 'h', 'm' or 'd' fails with InvalidFormat; one whose
\* trimmed form ends in a unit fails exactly when the characters before the
\* unit are not a float literal, and then with the float parser's error, not
\* with InvalidFormat.
C17_RejectsMalformed ==
    LET s  == Trim(input)
        ok == s # <<>> /\ s[Len(s)] \in Units
    IN  output # NoResult =>
          /\ (input # <<>> /\ ~ok) => output = Err(ErrFormat)
          /\ (ok /\ ~SignedDecimal(SubSeq(s, 1, Len(s) - 1)))
               => (~output.ok /\ output.err \in FloatErrors)
          /\ (ok /\ SignedDecimal(SubSeq(s, 1, Len(s) - 1))) => output.ok

\* "2hh" has been parsed: the unit is there, "2h" before it is no number, and
\* the error is the float parser's.
C17_Witness ==
    /\ input = <<"2", "h", "h">>
    /\ output = Err("invalid float literal")

\* Where a get_assigned_issues or create_worklog stands once past its cell read.
PastRead == {"g_match", "g_wait", "g_body", "w_match", "w_wait", "w_body"}

\* Waiting for send().await, and for response.json().await.
Waiting == {"g_wait", "w_wait"}

Reading == {"g_body", "w_body"}

\* The request carries the credentials and base URL of client c.
SentAs(req, c) ==
    req.user = c.email /\ req.pass = c.access_token /\ req.url[1] = c.base_url

\* C18: the client a get_assigned_issues or create_worklog read from the cell
\* stays the one it works with whatever the cell becomes: it is what the request
\* is sent as, the request stays in flight until it is answered, and the answer
\* is what the command returns.
C18_ReadClientIsKept ==
    [][\A t \in Tasks :
         /\ (pc[t] \in PastRead /\ pc'[t] \in PastRead) => client'[t] = client[t]
         /\ (pc[t] \in {"g_match", "w_match"} /\ client[t] # None /\ pc'[t] # pc[t])
              => \/ /\ pc'[t] \in Waiting
                    /\ inflight'[t] # None /\ SentAs(inflight'[t][1], client[t][1])
                 \/ /\ pc[t] = "w_match" /\ pc'[t] = "done"
                    /\ result'[t].err[1] = "Invalid time format: "
         /\ (pc[t] \in Waiting \cup Reading /\ pc'[t] \in Waiting \cup Reading)
              => inflight'[t] = inflight[t]
         /\ (pc[t] \in Waiting /\ pc'[t] # pc[t])
              => /\ got'[t] # None
                 /\ IF Got2xx(t)' THEN pc'[t] \in Reading
                    ELSE pc'[t] = "done" /\ ~result'[t].ok
         /\ (pc[t] \in Reading /\ pc'[t] # pc[t])
              => /\ pc'[t] = "done" /\ got'[t] = got[t]
                 /\ result'[t].ok <=> got[t][1].decodes
      ]_vars

\* A create_worklog read a client from the cell; a connect with other
\* credentials has completed since, and the POST is in flight as the client read.
C18_Witness ==
    \E t \in Tasks :
        /\ pc[t] = "w_wait" /\ client[t] # None
        /\ session # None /\ session # client[t]
        /\ inflight[t] # None /\ SentAs(inflight[t][1], client[t][1])
        /\ ~SentAs(inflight[t][1], session[1])

\* C19: a connect goes on to the store exactly when its own probe got a 2xx, it
\* then writes its own client whatever happened to the cell meanwhile, and the
\* cell takes a client only by such a write; so the cell is empty or holds a
\* client whose own probe got a 2xx.
C19_CellHoldsProbedClient ==
    /\ [](\A t \in Tasks :
            pc[t] \in {"c_lock", "c_store"}
              => /\ call[t].op = "connect_to_jira" /\ Got2xx(t)
                 /\ client[t] = <<ClientOf(call[t])>>)
    /\ [][/\ (session' # session /\ session' # None)
               => \E t \in Tasks :
                    /\ pc[t] = "c_store" /\ Got2xx(t)
                    /\ session' = <<ClientOf(call[t])>>
          /\ \A t \in Tasks :
               /\ (pc[t] = "probing" /\ pc'[t] # pc[t])
                    => (Got2xx(t)' <=> pc'[t] = "c_lock")
               /\ (pc[t] = "c_lock" /\ pc'[t] # pc[t]) => pc'[t] = "c_store"
               /\ (pc[t] = "c_store" /\ pc'[t] # pc[t])
                    => session' = <<ClientOf(call[t])>>
         ]_vars

\* A connect whose probe got a 2xx holds the lock and is about to write, the
\* cell being empty after a disconnect that has completed.
C19_Witness ==
    \E t, u \in Tasks :
        /\ call[t].op = "connect_to_jira" /\ pc[t] = "c_store" /\ Got2xx(t)
        /\ call[u].op = "disconnect_from_jira" /\ pc[u] = "done"
        /\ session = None

\* C20: no step of a get_assigned_issues or create_worklog changes the cell,
\* whatever it returns; the cell changes only in a step of a connect or a
\* disconnect.
C20_ReadersLeaveCell ==
    [][/\ \A t \in Tasks :
            (call[t].op \in {"get_assigned_issues", "create_worklog"} /\ pc'[t] # pc[t])
              => session' = session
       /\ session' # session
            => \E t \in Tasks : call[t].op \in Writers /\ pc'[t] # pc[t]
      ]_vars

\* A create_worklog with an invalid duration and a get_assigned_issues answered
\* 401 have both returned their error, and the cell still holds a client.
C20_Witness ==
    \E t, u \in Tasks :
        /\ call[t].op = "create_worklog" /\ pc[t] = "done"
        /\ result[t] = Err(<<"Invalid time format: ", ErrFormat>>)
        /\ call[u].op = "get_assigned_issues" /\ pc[u] = "done"
        /\ got[u] # None /\ got[u][1].status = 401 /\ ~result[u].ok
        /\ session # None

====
